---- MODULE Spec2Model ----
(***************************************************************************)
(* The session-scoped conversation relay of backend/app/main.py: the       *)
(* process-wide dict chat_sessions, the two chat endpoints (POST /chat and  *)
(* POST /chat/stream) and the session endpoints (list, get, delete,         *)
(* create).  The handlers are asyncio coroutines on one event loop, so the  *)
(* code between two awaits on the backend runs atomically; one action of    *)
(* this module is one such atomic segment.                                  *)
(***************************************************************************)
EXTENDS Integers, Sequences, FiniteSets, TLC

\* ------------------------------------------------------------------ bounds
MaxTurns == 2        \* chat requests (blocking or streaming) per behaviour
MaxSessions == 1     \* session ids uuid4() hands out per behaviour
MaxTime == 1         \* readings of datetime.now() are 0..MaxTime
MaxNoise == 1        \* empty or undecodable lines per backend stream
MaxListed == 3       \* sessions of a store drawn for list_sessions

\* ------------------------------------------------------------------ inputs
None == "None"                       \* Python's None, for text fields
NoneId == 0                          \* Python's None, for session_id
UnknownId == -1                      \* a session id that was never issued
Models == {"m1", "m2"}
\* the text of a user message is opaque to the handlers: requests alternate
\* between two texts
UserMessages == {"hi", "yo"}
UserMessage(t) == IF t % 2 = 1 THEN "hi" ELSE "yo"
SystemPrompts == {None, "sys"}
Turns == 1 .. MaxTurns
BackendStatusCodes == {404, 500}     \* non-success statuses of the backend

VARIABLES
    chat_sessions,   \* the keys of the dict chat_sessions, in insertion order
    heap,            \* the session dicts ever created, by session id
    now,             \* the reading of datetime.now()
    turns,           \* per chat request: position and locals of its handler
    resp             \* the HTTP response the last step returned, if any

vars == <<chat_sessions, heap, now, turns, resp>>

\* ----------------------------------------------------------------- helpers
Last(s) == s[Len(s)]

\* key in chat_sessions
InStore(session_id, keys) == \E i \in 1 .. Len(keys) : keys[i] = session_id

\* `x or y` evaluates y when x is None (or another falsy value)
Falsy(session_id) == session_id = NoneId

\* variant: the key is left in the dict
RemoveNothing(keys, session_id) == keys

\* del chat_sessions[session_id]
Remove(keys, session_id) == SelectSeq(keys, LAMBDA k : k # session_id)

NoResp ==
    [op |-> None, status |-> 0, session_id |-> NoneId, model |-> None,
     items |-> <<>>]

Response(op, status, session_id) ==
    [NoResp EXCEPT !.op = op, !.status = status, !.session_id = session_id]

\* ------------------------------------------------------------ session store
\* create_session: a fresh uuid4 key bound to a new dict
NewSessionId == Len(heap) + 1

NewSession(model) ==
    [model |-> model, messages |-> <<>>, created_at |-> now,
     last_updated |-> now,
     appends |-> 0]       \* history: how many appends this dict has seen

create_session_heap(model) == Append(heap, NewSession(model))

create_session_keys == Append(chat_sessions, NewSessionId)

Message(role, content, t) ==
    [role |-> role, content |-> content, timestamp |-> now,
     turn |-> t]          \* history: the chat request that appended it

\* variant: messages.insert(0, msg)
AppendMessageFront(session, msg) ==
    [session EXCEPT !.messages = <<msg>> \o @, !.appends = @ + 1]

\* session["messages"].append(msg)
AppendMessage(session, msg) ==
    [session EXCEPT !.messages = Append(@, msg), !.appends = @ + 1]

\* get_session_messages: role and content of every stored message
ProjectMessages(messages) ==
    [i \in 1 .. Len(messages) |->
        [role |-> messages[i].role, content |-> messages[i].content]]

get_session_messages(session_id, keys, h) ==
    IF ~InStore(session_id, keys) THEN <<>>
    ELSE ProjectMessages(h[session_id].messages)

\* variant: messages.append(system entry)
WithSystemPromptAppended(messages, system_prompt) ==
    IF system_prompt # None /\ system_prompt # ""
    THEN Append(messages, [role |-> "system", content |-> system_prompt])
    ELSE messages

\* messages.insert(0, system entry) if request.system_prompt is truthy
WithSystemPrompt(messages, system_prompt) ==
    IF system_prompt # None /\ system_prompt # ""
    THEN <<[role |-> "system", content |-> system_prompt]>> \o messages
    ELSE messages

\* ------------------------------------------------------------ list_sessions
SessionInfo(session_id) ==
    [session_id |-> session_id,
     model |-> heap[session_id].model,
     created_at |-> heap[session_id].created_at,
     last_updated |-> heap[session_id].last_updated,
     message_count |-> Len(heap[session_id].messages)]

\* variant: sorted(...) without reverse=True
InsertSortedAscending(sorted, x) ==
    LET before == {i \in 1 .. Len(sorted) :
                      \A j \in 1 .. i : sorted[j].last_updated <= x.last_updated}
        n == Cardinality(before)
    IN SubSeq(sorted, 1, n) \o <<x>> \o SubSeq(sorted, n + 1, Len(sorted))

\* sorted(..., reverse=True) is stable: an entry goes behind every entry
\* whose key is greater than or equal to its own
InsertSorted(sorted, x) ==
    LET before == {i \in 1 .. Len(sorted) :
                      \A j \in 1 .. i : sorted[j].last_updated >= x.last_updated}
        n == Cardinality(before)
    IN SubSeq(sorted, 1, n) \o <<x>> \o SubSeq(sorted, n + 1, Len(sorted))

RECURSIVE SortedByLastUpdated(_)
SortedByLastUpdated(infos) ==
    IF infos = <<>> THEN <<>>
    ELSE InsertSorted(SortedByLastUpdated(SubSeq(infos, 1, Len(infos) - 1)),
                      Last(infos))

list_sessions_result ==
    SortedByLastUpdated([i \in 1 .. Len(chat_sessions) |->
                            SessionInfo(chat_sessions[i])])

\* ------------------------------------------------------------------- state
\* no record decoded yet, no answer received yet
NoData == [kind |-> None, has_message |-> FALSE, content |-> "", done |-> FALSE]

NoAnswer == [outcome |-> None, status_code |-> 0]

IdleTurn ==
    [pc |-> "idle", kind |-> None,
     request |-> [message |-> None, model |-> None, session_id |-> NoneId,
                  system_prompt |-> None],
     session_id |-> NoneId, messages |-> <<>>, full_response |-> "",
     pos |-> 0, noise |-> 0, yielded |-> <<>>,
     status |-> 0, error |-> None, response |-> None,
     data |-> NoData,     \* generate(): the record json.loads returned last
     answer |-> NoAnswer, \* what the backend answered the blocking call with
     calls |-> 0,         \* history: the backend calls the handler has issued
     flagged |-> FALSE]   \* history: a record with done true has arrived

Init ==
    /\ chat_sessions = <<>>
    /\ heap = <<>>
    /\ now = 0
    /\ turns = [t \in Turns |-> IdleTurn]
    /\ resp = NoResp

\* A response is handed to its caller, and the frame of a handler that has
\* finished is released, before the event loop runs another handler.
Finished(turn) == turn.pc \in {"done", "aborted", "ended"}

Quiet == resp = NoResp /\ \A t \in Turns : ~Finished(turns[t])

ReturnedTurn == [IdleTurn EXCEPT !.pc = "returned"]

Return ==
    /\ ~Quiet
    /\ resp' = NoResp
    /\ turns' = [t \in Turns |->
                    IF Finished(turns[t]) THEN ReturnedTurn ELSE turns[t]]
    /\ UNCHANGED <<chat_sessions, heap, now>>

\* the clock advances between steps
Tick ==
    /\ Quiet
    /\ now < MaxTime
    /\ now' = now + 1
    /\ UNCHANGED <<chat_sessions, heap, turns, resp>>

\* GET /sessions
ListSessions ==
    /\ Quiet
    /\ resp' = [Response("list", 200, NoneId) EXCEPT
                   !.items = list_sessions_result]
    /\ UNCHANGED <<chat_sessions, heap, now, turns>>

\* GET /sessions/{session_id}
GetSession(session_id) ==
    /\ Quiet
    /\ resp' = IF ~InStore(session_id, chat_sessions)
               THEN Response("get", 404, session_id)
               ELSE [Response("get", 200, session_id) EXCEPT
                        !.model = heap[session_id].model,
                        !.items = heap[session_id].messages]
    /\ UNCHANGED <<chat_sessions, heap, now, turns>>

\* DELETE /sessions/{session_id}
DeleteSession(session_id) ==
    /\ Quiet
    /\ IF ~InStore(session_id, chat_sessions)
       THEN /\ resp' = Response("delete", 404, session_id)
            /\ UNCHANGED chat_sessions
       ELSE /\ chat_sessions' = Remove(chat_sessions, session_id)
            /\ resp' = Response("delete", 200, session_id)
    /\ UNCHANGED <<heap, now, turns>>

\* variant: the model is not looked up in the list
ModelAvailableAny(model, tags) == TRUE

\* model in available_models, the names under "models" in the tags answer
ModelAvailable(model, tags) == model \in tags.models

\* POST /sessions: GET /api/tags on the backend, then create_session
CreateNewSession(model, tags) ==
    /\ Quiet
    /\ tags.outcome = "ok" /\ ModelAvailable(model, tags)
            => Len(heap) < MaxSessions
    /\ IF tags.outcome = "request_error"
       THEN /\ resp' = Response("create", 503, NoneId)
            /\ UNCHANGED <<chat_sessions, heap>>
       ELSE IF tags.outcome # "ok"
       THEN /\ resp' = Response("create", 500, NoneId)
            /\ UNCHANGED <<chat_sessions, heap>>
       ELSE IF ~ModelAvailable(model, tags)
       THEN /\ resp' = Response("create", 400, NoneId)
            /\ UNCHANGED <<chat_sessions, heap>>
       ELSE /\ heap' = create_session_heap(model)
            /\ chat_sessions' = create_session_keys
            /\ resp' = [Response("create", 200, NewSessionId) EXCEPT
                           !.model = model]
    /\ UNCHANGED <<now, turns>>

TagsOutcomes ==
    [outcome : {"ok"}, models : SUBSET Models]
        \cup [outcome : {"request_error", "status_error", "malformed"},
              models : {{}}]

\* the ids a client can name: those issued so far, and one never issued
IssuedIds == 1 .. Len(heap)

KnownIds == IssuedIds \cup {UnknownId}

\* ------------------------------------------------------------- the backend
\* A deterministic backend double: model m1 greets, model m2 echoes the last
\* message of the payload.  A reply is produced as a sequence of fragments.
BackendFragments(model, messages) ==
    IF model = "m1" THEN <<"he", "llo">> ELSE <<Last(messages).content>>

RECURSIVE Concat(_)
Concat(fragments) ==
    IF fragments = <<>> THEN ""
    ELSE Concat(SubSeq(fragments, 1, Len(fragments) - 1)) \o Last(fragments)

\* POST /api/chat, stream false: {message: {content: <the whole reply>}}
BackendReply(model, messages) == Concat(BackendFragments(model, messages))

ChatOutcomes ==
    [outcome : {"ok", "request_error", "malformed"}, status_code : {200}]
        \cup [outcome : {"status_error"}, status_code : BackendStatusCodes]

\* POST /api/chat, stream true: the lines the backend may send next.  A json
\* line carries the next fragment; the completion flag comes with the last
\* fragment or in a closing record of its own, with or without a message.
JsonLine(has_message, content, done) ==
    [kind |-> "json", has_message |-> has_message, content |-> content,
     done |-> done]

SkippedLine(kind) ==
    [kind |-> kind, has_message |-> FALSE, content |-> "", done |-> FALSE]

BackendLines(turn) ==
    LET fragments == BackendFragments(turn.request.model, turn.messages)
        n == Len(fragments)
    IN  (IF turn.pos < n - 1
         THEN {JsonLine(TRUE, fragments[turn.pos + 1], FALSE)}
         ELSE IF turn.pos = n - 1
         THEN {JsonLine(TRUE, fragments[n], done) : done \in BOOLEAN}
         ELSE {JsonLine(has_message, "", TRUE) : has_message \in BOOLEAN})
        \cup (IF turn.noise < MaxNoise
              THEN {SkippedLine("empty"), SkippedLine("undecodable")}
              ELSE {})

\* --------------------------------------------------------------- chat turns
Requests(t) ==
    [message : {UserMessage(t)}, model : Models,
     session_id : {NoneId} \cup KnownIds, system_prompt : SystemPrompts]

\* requests are numbered in the order they arrive
Arriving(t) ==
    /\ turns[t].pc = "idle"
    /\ \A u \in Turns : u < t => turns[u].pc # "idle"

\* what the handler's except clauses make of an exception raised in its
\* try block: the status the caller gets
HTTPException(status_code, error) ==
    [type |-> "HTTPException", status_code |-> status_code, error |-> error]

SessionNotFound == HTTPException(404, "SessionNotFound")

ModelMismatch == HTTPException(400, "ModelMismatch")

BackendException(answer) ==
    IF answer.outcome = "request_error"
    THEN [type |-> "RequestError", status_code |-> 0,
          error |-> "BackendUnavailable"]
    ELSE IF answer.outcome = "status_error"
    THEN [type |-> "HTTPStatusError", status_code |-> answer.status_code,
          error |-> "BackendError"]
    ELSE [type |-> "KeyError", status_code |-> 0, error |-> "ProtocolError"]

\* variant: the one clause `except Exception`
chat_with_model_except_generic(e) == 500

\* except httpx.RequestError / httpx.HTTPStatusError / Exception: an
\* HTTPException raised in the try block is an Exception
chat_with_model_except(e) ==
    IF e.type = "RequestError" THEN 503
    ELSE IF e.type = "HTTPStatusError" THEN e.status_code
    ELSE 500

\* except Exception
chat_stream_except(e) == 500

\* variant: create_session is called with a default model
ResolvedDefaultModel(request) ==
    LET creating == Falsy(request.session_id)
    IN [session_id |-> IF creating THEN NewSessionId ELSE request.session_id,
        keys |-> IF creating THEN create_session_keys ELSE chat_sessions,
        heap |-> IF creating THEN create_session_heap("m1") ELSE heap]

\* session_id = request.session_id or create_session(request.model)
Resolved(request) ==
    LET creating == Falsy(request.session_id)
    IN [session_id |-> IF creating THEN NewSessionId ELSE request.session_id,
        keys |-> IF creating THEN create_session_keys ELSE chat_sessions,
        heap |-> IF creating THEN create_session_heap(request.model) ELSE heap]

\* session["model"] != request.model
ChatModelDiffers(session, request) == session.model # request.model

\* chat_stream makes no such check
StreamModelDiffers(session, request) == FALSE

\* variant: the user message is not appended
UserNotAppended(session, request, t) == session

\* variant: the session is rebound to the model of the request
UserAppendedRebinding(session, request, t) ==
    [AppendMessage(session, Message("user", request.message, t)) EXCEPT
        !.model = request.model]

\* variant: a supplied system prompt is stored ahead of the user message
UserAppendedWithSystemPrompt(session, request, t) ==
    AppendMessage(
        IF request.system_prompt # None
        THEN AppendMessage(session, Message("system", request.system_prompt, t))
        ELSE session,
        Message("user", request.message, t))

\* the user message is appended to the session
UserAppended(session, request, t) ==
    AppendMessage(session, Message("user", request.message, t))

Started(kind, request, session_id) ==
    [IdleTurn EXCEPT !.kind = kind, !.request = request,
                     !.session_id = session_id]

Raised(turn, e, status) ==
    [turn EXCEPT !.pc = "aborted", !.status = status, !.error = e.error]

\* the handler's code from its first line to its first await on the backend
\* (chat_with_model 129-168, chat_stream 201-268)
StartTurn(t, kind, request, differs, status) ==
    /\ Quiet
    /\ Arriving(t)
    /\ Falsy(request.session_id) => Len(heap) < MaxSessions
    /\ LET r == Resolved(request)
           turn == Started(kind, request, r.session_id)
       IN /\ chat_sessions' = r.keys
          /\ IF ~InStore(r.session_id, r.keys)
             THEN /\ turns' = [turns EXCEPT
                       ![t] = Raised(turn, SessionNotFound,
                                     status[SessionNotFound.error])]
                  /\ heap' = r.heap
             ELSE IF differs[r.session_id]
             THEN /\ turns' = [turns EXCEPT
                       ![t] = Raised(turn, ModelMismatch,
                                     status[ModelMismatch.error])]
                  /\ heap' = r.heap
             ELSE LET h == [r.heap EXCEPT ![r.session_id] =
                               UserAppended(@, request, t)]
                  IN /\ heap' = h
                     /\ turns' = [turns EXCEPT ![t] =
                           [turn EXCEPT
                              !.pc = IF kind = "chat" THEN "awaiting"
                                     ELSE "streaming",
                              !.status = IF kind = "chat" THEN 0 ELSE 200,
                              !.calls = @ + 1,
                              !.messages = WithSystemPrompt(
                                  get_session_messages(r.session_id, r.keys, h),
                                  request.system_prompt)]]
    /\ resp' = NoResp
    /\ UNCHANGED now

\* POST /chat up to the await on the backend
ChatStart(t, request) ==
    StartTurn(t, "chat", request,
              [id \in 1 .. Len(Resolved(request).heap) |->
                  ChatModelDiffers(Resolved(request).heap[id], request)],
              [e \in {"SessionNotFound", "ModelMismatch"} |->
                  chat_with_model_except(
                      IF e = "SessionNotFound" THEN SessionNotFound
                      ELSE ModelMismatch)])

\* POST /chat/stream up to the return of the StreamingResponse
StreamStart(t, request) ==
    StartTurn(t, "stream", request,
              [id \in 1 .. Len(Resolved(request).heap) |->
                  StreamModelDiffers(Resolved(request).heap[id], request)],
              [e \in {"SessionNotFound", "ModelMismatch"} |->
                  chat_stream_except(
                      IF e = "SessionNotFound" THEN SessionNotFound
                      ELSE ModelMismatch)])

\* variant: last_updated is not set
CommitWithoutTouch(session, content, t) ==
    AppendMessage(session, Message("assistant", content, t))

\* the assistant message is appended and last_updated set (lines 176-182,
\* 255-261); `session` is the dict the handler fetched when it started
CommitAssistant(session, content, t) ==
    [AppendMessage(session, Message("assistant", content, t)) EXCEPT
        !.last_updated = now]

\* variant: data.get("message", {}).get("content", "") and no
\* raise_for_status, so that every answer is committed
RepliedAlways(session, answer, assistant_content, t) ==
    CommitAssistant(session, IF answer.outcome = "ok" THEN assistant_content
                             ELSE "", t)

\* variant: a failed call takes the turn's user message back
RepliedRollingBack(session, answer, assistant_content, t) ==
    IF answer.outcome = "ok" THEN CommitAssistant(session, assistant_content, t)
    ELSE [session EXCEPT !.messages = SelectSeq(@, LAMBDA m : m.turn # t)]

\* the session after lines 168-182: client.post, raise_for_status,
\* response.json() or data["message"]["content"] raising skips the commit
Replied(session, answer, assistant_content, t) ==
    IF answer.outcome = "ok" THEN CommitAssistant(session, assistant_content, t)
    ELSE session

\* POST /chat from the backend's answer on (lines 168-196)
ChatReply(t, answer) ==
    /\ Quiet
    /\ turns[t].pc = "awaiting"
    /\ LET turn == [turns[t] EXCEPT !.answer = answer]
           assistant_content == BackendReply(turn.request.model, turn.messages)
       IN /\ heap' = [heap EXCEPT ![turn.session_id] =
                         Replied(@, answer, assistant_content, t)]
          /\ turns' = [turns EXCEPT ![t] =
                IF answer.outcome = "ok"
                THEN [turn EXCEPT !.pc = "done", !.status = 200,
                                  !.response = assistant_content]
                ELSE Raised(turn, BackendException(answer),
                            chat_with_model_except(BackendException(answer)))]
    /\ resp' = NoResp
    /\ UNCHANGED <<chat_sessions, now>>

ContentChunk(content, session_id) ==
    [type |-> "content", content |-> content, session_id |-> session_id]

DoneChunk(session_id) ==
    [type |-> "done", content |-> "", session_id |-> session_id]

\* variant: full_response = content
AccumulatedLast(full_response, line) ==
    IF line.has_message THEN line.content ELSE full_response

\* full_response += content, for a record that has message.content
Accumulated(full_response, line) ==
    IF line.has_message THEN full_response \o line.content ELSE full_response

\* variant: every record counts as the last
CompletionFlagAlways(line) == TRUE

\* data.get("done", False)
CompletionFlag(line) == line.done

\* variant: a line that does not decode ends the loop
ContinuedAsBreak(turn) == [turn EXCEPT !.noise = @ + 1, !.pc = "ended"]

\* `if line:` is false, or json.loads raised JSONDecodeError and the except
\* clause continues with the next line: no local but the iterator moves
Continued(turn) == [turn EXCEPT !.noise = @ + 1]

\* variant: no break after the done marker
LineHandledNoBreak(turn, session, line, t) ==
    IF line.kind = "empty" \/ line.kind = "undecodable"
    THEN [turn |-> Continued(turn), session |-> session]
    ELSE LET full_response == Accumulated(turn.full_response, line)
             data == line
             chunks == IF line.has_message
                       THEN Append(turn.yielded,
                                   ContentChunk(line.content, turn.session_id))
                       ELSE turn.yielded
         IN IF CompletionFlag(line)
            THEN [turn |-> [turn EXCEPT
                              !.pos = @ + 1, !.data = data,
                              !.full_response = full_response,
                              !.yielded = Append(chunks,
                                                 DoneChunk(turn.session_id))],
                  session |-> CommitAssistant(session, full_response, t)]
            ELSE [turn |-> [turn EXCEPT
                              !.pos = @ + 1, !.data = data,
                              !.full_response = full_response,
                              !.yielded = chunks],
                  session |-> session]

\* the body of the loop over response.aiter_lines() for one line (241-266):
\* the locals and the session afterwards
LineHandled(turn, session, line, t) ==
    IF line.kind = "empty" \/ line.kind = "undecodable"
    THEN [turn |-> Continued(turn), session |-> session]
    ELSE LET full_response == Accumulated(turn.full_response, line)
             data == line
             chunks == IF line.has_message
                       THEN Append(turn.yielded,
                                   ContentChunk(line.content, turn.session_id))
                       ELSE turn.yielded
         IN IF CompletionFlag(line)
            THEN [turn |-> [turn EXCEPT
                              !.pc = "done", !.pos = @ + 1, !.data = data,
                              !.full_response = full_response,
                              !.yielded = Append(chunks,
                                                 DoneChunk(turn.session_id))],
                  session |-> CommitAssistant(session, full_response, t)]
            ELSE [turn |-> [turn EXCEPT
                              !.pos = @ + 1, !.data = data,
                              !.full_response = full_response,
                              !.yielded = chunks],
                  session |-> session]

\* generate(): one line of the backend's stream arrives
StreamLine(t, line) ==
    /\ Quiet
    /\ turns[t].pc = "streaming"
    /\ line \in BackendLines(turns[t])
    /\ LET after == LineHandled(turns[t], heap[turns[t].session_id], line, t)
       IN /\ turns' = [turns EXCEPT ![t] =
                         [after.turn EXCEPT !.flagged = line.done]]
          /\ heap' = [heap EXCEPT ![turns[t].session_id] = after.session]
    /\ resp' = NoResp
    /\ UNCHANGED <<chat_sessions, now>>

\* generate(): aiter_lines() is exhausted before a record with done; the
\* generator returns and the response body ends
StreamEnd(t) ==
    /\ Quiet
    /\ turns[t].pc = "streaming"
    /\ turns' = [turns EXCEPT ![t].pc = "ended"]
    /\ resp' = NoResp
    /\ UNCHANGED <<chat_sessions, heap, now>>

\* generate(): client.stream, raise_for_status or aiter_lines raises; the
\* exception leaves the generator after the 200 response has started
StreamFail(t) ==
    /\ Quiet
    /\ turns[t].pc = "streaming"
    /\ turns' = [turns EXCEPT ![t].pc = "aborted",
                              ![t].error = "BackendUnavailable"]
    /\ resp' = NoResp
    /\ UNCHANGED <<chat_sessions, heap, now>>

StreamLines ==
    {JsonLine(has_message, content, done) :
        has_message \in BOOLEAN, content \in {"", "he", "llo"} \cup UserMessages,
        done \in BOOLEAN}
        \cup {SkippedLine("empty"), SkippedLine("undecodable")}

Next ==
    \/ Return
    \/ Tick
    \/ ListSessions
    \/ \E session_id \in IssuedIds : GetSession(session_id)
    \/ \E session_id \in IssuedIds : DeleteSession(session_id)
    \/ \E model \in Models, tags \in TagsOutcomes : CreateNewSession(model, tags)
    \/ \E t \in Turns : \E request \in Requests(t) : ChatStart(t, request)
    \/ \E t \in Turns, answer \in ChatOutcomes : ChatReply(t, answer)
    \/ \E t \in Turns : \E request \in Requests(t) : StreamStart(t, request)
    \/ \E t \in Turns, line \in StreamLines : StreamLine(t, line)
    \/ \E t \in Turns : StreamEnd(t)
    \/ \E t \in Turns : StreamFail(t)

\* ------------------------------------------------------------------ claims
\* the turns whose handler has run and whose locals are still there
Active == {t \in Turns : turns[t].pc \notin {"idle", "returned"}}

\* the turns that got as far as appending their user message
Appended == {t \in Active : turns[t].messages # <<>>}

\* the messages turn t has appended to the session dict it holds
TurnMessages(t) ==
    SelectSeq(heap[turns[t].session_id].messages, LAMBDA m : m.turn = t)

UserOf(t) == [role |-> "user", content |-> turns[t].request.message]

\* the request of turn t names an issued session bound to another model
NamesOtherModel(t) ==
    /\ turns[t].request.session_id \in IssuedIds
    /\ heap[turns[t].request.session_id].model # turns[t].request.model

\* C1: a chat turn, blocking or streaming, that names an existing session and
\* a model other than the session's is rejected with ModelMismatch and has
\* appended nothing to the session.
C1_MismatchRejected ==
    \A t \in Active :
        NamesOtherModel(t) /\ turns[t].error # "SessionNotFound"
            => /\ turns[t].pc = "aborted"
               /\ turns[t].error = "ModelMismatch"
               /\ TurnMessages(t) = <<>>

\* the time of the last commit to a session: the timestamp of its last
\* assistant message, or its creation time
LastCommitTime(session) ==
    LET commits == {i \in 1 .. Len(session.messages) :
                       session.messages[i].role = "assistant"}
    IN IF commits = {} THEN session.created_at
       ELSE session.messages[CHOOSE i \in commits :
                                 \A j \in commits : j <= i].timestamp

\* C2: a streaming turn has appended an assistant message exactly if it has
\* handled a record with a true completion flag; a stream that fails or ends
\* before that leaves of the turn only its user message in the session, and
\* last_updated where the last commit put it.
C2_StreamCommitsOnlyOnDone ==
    \A t \in Appended :
        turns[t].kind = "stream" =>
            LET session == heap[turns[t].session_id]
                mine == ProjectMessages(TurnMessages(t))
            IN /\ turns[t].flagged
                    <=> \E i \in 1 .. Len(mine) : mine[i].role = "assistant"
               /\ turns[t].flagged <=> turns[t].pc = "done"
               /\ turns[t].pc = "done" =>
                    mine = <<UserOf(t),
                             [role |-> "assistant",
                              content |-> turns[t].full_response]>>
               /\ turns[t].pc # "done" =>
                    /\ mine = <<UserOf(t)>>
                    /\ session.last_updated = LastCommitTime(session)

C2_Witness ==
    \E t \in Appended :
        /\ turns[t].kind = "stream"
        /\ turns[t].pc \in {"aborted", "ended"}
        /\ turns[t].yielded # <<>>

\* the text a caller of a streaming turn has been sent
Streamed(yielded) ==
    Concat([i \in 1 .. Len(SelectSeq(yielded, LAMBDA c : c.type = "content"))
              |-> SelectSeq(yielded, LAMBDA c : c.type = "content")[i].content])

\* C3: against the deterministic backend, the fragments of a completed
\* streaming turn concatenate to the reply a blocking turn returns for the
\* same payload, and either turn commits exactly that text.
C3_StreamEqualsBlocking ==
    \A t \in Active :
        turns[t].pc = "done" =>
            LET reply == BackendReply(turns[t].request.model, turns[t].messages)
            IN /\ turns[t].kind = "chat" => turns[t].response = reply
               /\ turns[t].kind = "stream" =>
                    Streamed(turns[t].yielded) = reply
               /\ Last(TurnMessages(t)).role = "assistant"
               /\ Last(TurnMessages(t)).content = reply

C3_Witness ==
    \E t \in Active :
        /\ turns[t].pc = "done"
        /\ turns[t].kind = "stream"
        /\ Len(turns[t].yielded) >= 3

\* C4: a chat turn naming a session id that is not in the store fails with
\* status 404, one naming another model than the session's with status 400,
\* and neither creates a session or appends to one.
C4_NotFound404Mismatch400 ==
    \A t \in Active :
        /\ ~InStore(turns[t].request.session_id, chat_sessions)
                /\ ~Falsy(turns[t].request.session_id)
                /\ turns[t].pc = "aborted"
                /\ turns[t].messages = <<>>
            => turns[t].status = 404
        /\ NamesOtherModel(t) /\ turns[t].error # "SessionNotFound"
            => /\ turns[t].pc = "aborted"
               /\ turns[t].status = 400
               /\ TurnMessages(t) = <<>>

IsPrefix(s, r) == Len(s) <= Len(r) /\ SubSeq(r, 1, Len(s)) = s

\* C5: under every interleaving of the operations a session's messages only
\* grow at the end: each step leaves the old list a prefix of the new one,
\* the list is as long as the appends made to it, and every turn's appends
\* are in it, in order.
C5_AppendOnly ==
    [][/\ \A id \in IssuedIds :
            /\ IsPrefix(heap[id].messages, heap'[id].messages)
            /\ Len(heap'[id].messages) = heap'[id].appends
            /\ Len(heap'[id].messages) - Len(heap[id].messages) <= 1
       /\ \A t \in Turns :
            turns'[t].pc \in {"awaiting", "streaming", "done", "ended"} =>
                LET mine == SelectSeq(heap'[turns'[t].session_id].messages,
                                      LAMBDA m : m.turn = t)
                IN Len(mine) = IF turns'[t].pc = "done" THEN 2 ELSE 1
      ]_vars

C5_Witness ==
    \E t, u \in Appended :
        /\ t # u
        /\ turns[t].session_id = turns[u].session_id
        /\ turns[t].pc = "done"
        /\ turns[u].pc \in {"awaiting", "streaming"}
        /\ InStore(turns[t].session_id, chat_sessions)

\* C6: in every session every assistant message comes after the user message
\* of the turn that produced it, so no prefix of the list holds more
\* assistant than user messages.
Count(messages, role, n) ==
    Cardinality({i \in 1 .. n : messages[i].role = role})

C6_UserBeforeAssistant ==
    \A id \in IssuedIds :
        LET messages == heap[id].messages
        IN /\ \A i \in 1 .. Len(messages) :
                messages[i].role = "assistant" =>
                    \E j \in 1 .. i - 1 :
                        /\ messages[j].role = "user"
                        /\ messages[j].turn = messages[i].turn
           /\ \A n \in 1 .. Len(messages) :
                Count(messages, "user", n) >= Count(messages, "assistant", n)
           /\ messages # <<>> => messages[1].role # "assistant"

C6_Witness ==
    \E id \in IssuedIds :
        /\ Len(heap[id].messages) = 4
        /\ heap[id].messages[2].role = "user"
        /\ heap[id].messages[3].role = "assistant"
        /\ heap[id].messages[3].turn = heap[id].messages[2].turn

\* C7: a deleted session stays deleted: a get of it answers 404, no list
\* holds it, and no later step, the commit of a turn that was waiting on the
\* backend included, puts its id back into the store.
C7_DeleteIrrevocable ==
    [][/\ \A id \in IssuedIds :
            ~InStore(id, chat_sessions) => ~InStore(id, chat_sessions')
       /\ resp'.op = "delete" /\ resp'.status = 200
            => ~InStore(resp'.session_id, chat_sessions')
       /\ resp'.op = "get" /\ ~InStore(resp'.session_id, chat_sessions')
            => resp'.status = 404
       /\ resp'.op = "list" =>
            \A i \in 1 .. Len(resp'.items) :
                InStore(resp'.items[i].session_id, chat_sessions')
      ]_vars

C7_Witness ==
    \E t \in Appended :
        /\ turns[t].pc = "done"
        /\ ~InStore(turns[t].session_id, chat_sessions)

\* C8: no operation changes the model a session was created with.
C8_ModelFixed ==
    [][\A id \in IssuedIds : heap'[id].model = heap[id].model]_vars

C8_Witness ==
    \E t \in Appended :
        /\ turns[t].pc = "done"
        /\ turns[t].request.model # heap[turns[t].session_id].model

\* C9: last_updated is the time of the session's last commit of an assistant
\* message (its creation time before the first): every commit sets it, and
\* nothing else, the append of a user message included, moves it.
C9_UpdatedAtIsLastCommit ==
    \A id \in IssuedIds : heap[id].last_updated = LastCommitTime(heap[id])

C9_Witness ==
    \E id \in IssuedIds :
        /\ Len(heap[id].messages) = 3
        /\ heap[id].created_at < heap[id].last_updated
        /\ heap[id].last_updated = heap[id].messages[2].timestamp
        /\ heap[id].messages[3].role = "user"

\* ------------------------------------------------- list_sessions on its own
\* list_sessions reads nothing but the store.  ListSpec starts from any store
\* that sessions created one after the other, completed blocking turns and
\* deletions leave behind, with no chat request in flight.  The order of the
\* list does not read the model, so every drawn session is bound to m1.
ListedSession(created_at, committed, last_updated, model) ==
    [model |-> model,
     messages |-> IF committed
                  THEN <<[role |-> "user", content |-> "hi",
                          timestamp |-> created_at, turn |-> 0],
                         [role |-> "assistant", content |-> "hello",
                          timestamp |-> last_updated, turn |-> 0]>>
                  ELSE <<>>,
     created_at |-> created_at, last_updated |-> last_updated,
     appends |-> IF committed THEN 2 ELSE 0]

ListedSessions ==
    {ListedSession(c, committed, u, "m1") :
        c \in 0 .. MaxTime, u \in 0 .. MaxTime, committed \in BOOLEAN}

ListInit ==
    /\ \E n \in 0 .. MaxListed :
        /\ heap \in [1 .. n -> ListedSessions]
        /\ \A id \in 1 .. n :
            /\ heap[id].created_at <= heap[id].last_updated
            /\ heap[id].messages = <<>> =>
                  heap[id].last_updated = heap[id].created_at
            /\ id > 1 => heap[id - 1].created_at <= heap[id].created_at
        /\ \E live \in SUBSET (1 .. n) :
            chat_sessions = SelectSeq([id \in 1 .. n |-> id],
                                      LAMBDA id : id \in live)
    /\ now = MaxTime
    /\ turns = [t \in Turns |-> ReturnedTurn]
    /\ resp = NoResp

ListNext ==
    \/ Return
    \/ ListSessions
    \/ \E session_id \in IssuedIds : GetSession(session_id)
    \/ \E session_id \in IssuedIds : DeleteSession(session_id)

ListSpec == ListInit /\ [][ListNext]_vars

KeyIndex(session_id) ==
    CHOOSE k \in 1 .. Len(chat_sessions) : chat_sessions[k] = session_id

\* C10: list() answers with one entry per session in the store and none for
\* a deleted one, a session updated later before one updated earlier, and
\* sessions updated at the same time in the order they were created in: the
\* store alone decides the sequence, so a second call with no write in
\* between answers the same.
C10_ListOrder ==
    resp.op = "list" =>
        LET items == resp.items
        IN /\ Len(items) = Len(chat_sessions)
           /\ \A k \in 1 .. Len(chat_sessions) :
                \E i \in 1 .. Len(items) :
                    items[i].session_id = chat_sessions[k]
           /\ \A i \in 1 .. Len(items) :
                /\ InStore(items[i].session_id, chat_sessions)
                /\ items[i] = SessionInfo(items[i].session_id)
           /\ \A i, j \in 1 .. Len(items) :
                i < j =>
                    /\ items[i].last_updated >= items[j].last_updated
                    /\ items[i].last_updated = items[j].last_updated
                        => KeyIndex(items[i].session_id)
                               < KeyIndex(items[j].session_id)

C10_Witness ==
    /\ resp.op = "list"
    /\ Len(heap) > Len(resp.items)
    /\ Len(resp.items) = 2
    /\ resp.items[1].session_id > resp.items[2].session_id
    /\ resp.items[1].last_updated > resp.items[2].last_updated

\* the texts a request can carry as its system prompt
SuppliedPrompts == SystemPrompts \ {None}

\* C11: a system prompt is never stored: no message of any session has the
\* role system or the text of a system prompt, and the payload of a turn that
\* supplies no system prompt has no such entry either, whatever prompts the
\* turns before it on the same session supplied.
C11_SystemPromptNotStored ==
    /\ \A id \in IssuedIds :
            \A i \in 1 .. Len(heap[id].messages) :
                /\ heap[id].messages[i].role \in {"user", "assistant"}
                /\ heap[id].messages[i].content \notin SuppliedPrompts
    /\ \A t \in Appended :
            turns[t].request.system_prompt = None =>
                \A i \in 1 .. Len(turns[t].messages) :
                    /\ turns[t].messages[i].role # "system"
                    /\ turns[t].messages[i].content \notin SuppliedPrompts

C11_Witness ==
    \E t, u \in Appended :
        /\ t < u
        /\ turns[t].session_id = turns[u].session_id
        /\ turns[t].request.system_prompt \in SuppliedPrompts
        /\ turns[t].messages[1].role = "system"
        /\ turns[u].request.system_prompt = None
        /\ Len(turns[u].messages) = 2
        /\ turns[u].messages[1] = UserOf(t)

\* the payload of a turn without the system entry put in front of it
WithoutSystemEntry(messages) == SelectSeq(messages, LAMBDA m : m.role # "system")

\* where in the list the user message of turn t is
OwnIndex(t, messages) ==
    CHOOSE i \in 1 .. Len(messages) :
        messages[i].turn = t /\ messages[i].role = "user"

\* no other turn has appended to the list since turn t appended its user
\* message
Undisturbed(t, messages) ==
    \A i \in 1 .. Len(messages) :
        i > OwnIndex(t, messages) => messages[i].turn = t

AssistantOf(content) == [role |-> "assistant", content |-> content]

\* C12: a blocking turn without a session id creates exactly one session,
\* bound to the model of the request and holding the user message, and calls
\* the backend; the successful reply r of a blocking turn is answered with
\* status 200, r, the session id and the model, creates and deletes nothing,
\* and appends the assistant message r to the session, so that with no other
\* turn's append in between the history is the one the turn found, its user
\* message and r: for a session the turn created, these two messages.
C12_BlockingTurnExtendsHistory ==
    [][\A t \in Turns :
        /\ (/\ turns[t].pc = "idle"
            /\ turns'[t].kind = "chat"
            /\ Falsy(turns'[t].request.session_id)) =>
                LET id == turns'[t].session_id
                IN /\ Len(heap') = Len(heap) + 1
                   /\ id = Len(heap')
                   /\ chat_sessions' = Append(chat_sessions, id)
                   /\ \A other \in IssuedIds : heap'[other] = heap[other]
                   /\ heap'[id].model = turns'[t].request.model
                   /\ ProjectMessages(heap'[id].messages)
                        = <<[role |-> "user",
                             content |-> turns'[t].request.message]>>
                   /\ turns'[t].pc = "awaiting"
        /\ (/\ turns[t].pc = "awaiting"
            /\ turns'[t].pc = "done") =>
                LET id == turns[t].session_id
                    r == BackendReply(turns[t].request.model, turns[t].messages)
                    before == ProjectMessages(heap[id].messages)
                    after == ProjectMessages(heap'[id].messages)
                IN /\ turns'[t].status = 200
                   /\ turns'[t].response = r
                   /\ turns'[t].session_id = id
                   /\ turns'[t].request = turns[t].request
                   /\ heap'[id].model = turns[t].request.model
                   /\ Len(heap') = Len(heap)
                   /\ chat_sessions' = chat_sessions
                   /\ \A other \in IssuedIds \ {id} : heap'[other] = heap[other]
                   /\ after = Append(before, AssistantOf(r))
                   /\ Undisturbed(t, heap[id].messages) =>
                        /\ after = WithoutSystemEntry(turns[t].messages)
                                      \o <<AssistantOf(r)>>
                        /\ Falsy(turns[t].request.session_id) =>
                              after = <<UserOf(t), AssistantOf(r)>>
      ]_vars

C12_Witness ==
    \E t \in Appended :
        /\ turns[t].kind = "chat"
        /\ turns[t].pc = "done"
        /\ Falsy(turns[t].request.session_id)
        /\ InStore(turns[t].session_id, chat_sessions)
        /\ ProjectMessages(heap[turns[t].session_id].messages)
             = <<UserOf(t), AssistantOf(turns[t].response)>>

\* C13: a blocking turn whose backend call fails is aborted after that one
\* call: with status 503 when the backend could not be reached, with the
\* backend's own status code when it answered with an error status, and with
\* the generic status 500 when its answer was malformed.
C13_BackendFailureStatus ==
    \A t \in Active :
        turns[t].kind = "chat" =>
            /\ turns[t].calls <= 1
            /\ turns[t].answer # NoAnswer => turns[t].calls = 1
            /\ turns[t].answer.outcome = "request_error" =>
                    /\ turns[t].pc = "aborted"
                    /\ turns[t].status = 503
                    /\ turns[t].error = "BackendUnavailable"
            /\ turns[t].answer.outcome = "status_error" =>
                    /\ turns[t].pc = "aborted"
                    /\ turns[t].status = turns[t].answer.status_code
                    /\ turns[t].status \in BackendStatusCodes
                    /\ turns[t].error = "BackendError"
            /\ turns[t].answer.outcome = "malformed" =>
                    /\ turns[t].pc = "aborted"
                    /\ turns[t].status = 500
                    /\ turns[t].error = "ProtocolError"

C13_Witness ==
    \E t, u \in Active :
        /\ turns[t].kind = "chat"
        /\ turns[t].answer.outcome = "status_error"
        /\ turns[t].status = 404
        /\ turns[u].kind = "chat"
        /\ turns[u].pc = "awaiting"

\* C14: POST /sessions creates a session, bound to the requested model
\* and empty, exactly if the backend answers the tags call and lists the
\* model; a model that is not listed is answered with status 400, a backend
\* that cannot be reached with 503, and every answer other than 200 leaves
\* the store as it was.
C14_CreateValidatesModel ==
    [][\A model \in Models, tags \in TagsOutcomes :
        CreateNewSession(model, tags) =>
            /\ resp'.op = "create"
            /\ (resp'.status = 200)
                    <=> (tags.outcome = "ok" /\ model \in tags.models)
            /\ (tags.outcome = "ok" /\ model \notin tags.models)
                    => resp'.status = 400
            /\ tags.outcome = "request_error" => resp'.status = 503
            /\ resp'.status # 200 =>
                    /\ chat_sessions' = chat_sessions
                    /\ heap' = heap
            /\ resp'.status = 200 =>
                    /\ Len(heap') = Len(heap) + 1
                    /\ chat_sessions' = Append(chat_sessions, resp'.session_id)
                    /\ \A id \in IssuedIds : heap'[id] = heap[id]
                    /\ heap'[resp'.session_id].model = model
                    /\ heap'[resp'.session_id].messages = <<>>
                    /\ resp'.model = model
      ]_vars

C14_Witness ==
    /\ resp.op = "create"
    /\ resp.status = 400
    /\ Len(chat_sessions) = 1

DoneMarkers(yielded) ==
    {i \in 1 .. Len(yielded) : yielded[i].type = "done"}

\* C16: every line a streaming turn receives adds to what the caller is
\* sent the content of the record, if the line decodes to a record with a
\* message, and then the done marker with the session id, if the record's
\* done is true, and nothing else.  The turn is done exactly with the first
\* such record and handles no line after it: the marker is sent once and
\* last, and one assistant message, the concatenation of the contents sent,
\* is committed with it and none before.
C16_ForwardedUpToDone ==
    [][\A t \in Turns :
        /\ \A line \in StreamLines :
              StreamLine(t, line) =>
                LET id == turns[t].session_id
                    decodable == line.kind = "json"
                    fragment == IF decodable /\ line.has_message
                                THEN <<ContentChunk(line.content, id)>>
                                ELSE <<>>
                    marker == IF decodable /\ line.done
                              THEN <<DoneChunk(id)>> ELSE <<>>
                IN /\ DoneMarkers(turns[t].yielded) = {}
                   /\ turns'[t].yielded = turns[t].yielded \o fragment \o marker
                   /\ (turns'[t].pc = "done") <=> (decodable /\ line.done)
                   /\ turns'[t].pc # "done" =>
                        /\ turns'[t].pc = "streaming"
                        /\ heap' = heap
                   /\ turns'[t].pc = "done" =>
                        ProjectMessages(heap'[id].messages)
                            = Append(ProjectMessages(heap[id].messages),
                                     AssistantOf(Streamed(turns'[t].yielded)))
        /\ turns'[t].kind = "stream" /\ turns'[t].messages # <<>> =>
              LET yielded == turns'[t].yielded
                  mine == SelectSeq(heap'[turns'[t].session_id].messages,
                                    LAMBDA m : m.turn = t)
                  sent == IF turns'[t].pc = "done" THEN 1 ELSE 0
              IN /\ Cardinality(DoneMarkers(yielded)) = sent
                 /\ DoneMarkers(yielded) \subseteq {Len(yielded)}
                 /\ Cardinality({i \in 1 .. Len(mine) :
                                    mine[i].role = "assistant"}) = sent
        /\ turns[t].kind = "stream" /\ turns[t].pc = "done" =>
              /\ turns'[t] = ReturnedTurn
              /\ heap' = heap
      ]_vars

C16_Witness ==
    \E t \in Appended :
        /\ turns[t].kind = "stream"
        /\ turns[t].pc = "done"
        /\ turns[t].noise > 0
        /\ ~turns[t].data.has_message
        /\ Len(turns[t].yielded) = 3
        /\ turns[t].yielded[3] = DoneChunk(turns[t].session_id)

\* what a streaming turn has forwarded, accumulated and decoded so far
Progress(turn) ==
    [pc |-> turn.pc, yielded |-> turn.yielded,
     full_response |-> turn.full_response, pos |-> turn.pos,
     data |-> turn.data, messages |-> turn.messages]

\* C17: a line that is empty or does not decode as JSON is skipped, wherever
\* in the stream it comes: the turn goes on streaming with what it has
\* forwarded, accumulated and decoded unchanged, and no session is written,
\* so that the lines after it are handled as they would be without it.
C17_NoiseSkipped ==
    [][\A t \in Turns :
        \A line \in StreamLines :
            StreamLine(t, line) /\ line.kind # "json" =>
                /\ turns'[t].pc = "streaming"
                /\ Progress(turns'[t]) = Progress(turns[t])
                /\ heap' = heap
                /\ chat_sessions' = chat_sessions
                /\ \A next \in StreamLines :
                        next.kind = "json" =>
                            (next \in BackendLines(turns'[t])
                                <=> next \in BackendLines(turns[t]))
      ]_vars

C17_Witness ==
    \E t \in Appended :
        /\ turns[t].kind = "stream"
        /\ turns[t].pc = "done"
        /\ turns[t].noise > 0
        /\ turns[t].data.has_message
        /\ Len(turns[t].yielded) = 2
        /\ Last(TurnMessages(t)).content = turns[t].yielded[1].content

\* C18: a streaming turn that has ended is Done, its assistant message
\* committed and the done marker sent last, or Aborted with a failure for
\* the caller; a backend stream that closes before a record with a true done
\* ends the turn as Aborted.
C18_StreamEndsDoneOrAborted ==
    \A t \in Active :
        turns[t].kind = "stream" /\ Finished(turns[t]) =>
            \/ /\ turns[t].pc = "done"
               /\ turns[t].yielded # <<>>
               /\ Last(turns[t].yielded) = DoneChunk(turns[t].session_id)
               /\ Last(TurnMessages(t)).role = "assistant"
            \/ /\ turns[t].pc = "aborted"
               /\ turns[t].error # None

\* C19: the payload of a turn is the stored messages up to and including
\* the turn's own user message, each as its role and content and nothing
\* more, in stored order, behind one system entry with the request's system
\* prompt exactly if the request supplies one; so it ends with the turn's
\* user message whatever other turns have appended to the session.
C19_PayloadIsProjection ==
    \A t \in Appended :
        LET stored == heap[turns[t].session_id].messages
            k == OwnIndex(t, stored)
            prompt == turns[t].request.system_prompt
            supplied == prompt \in SuppliedPrompts
            off == IF supplied THEN 1 ELSE 0
            payload == turns[t].messages
        IN /\ Len(payload) = k + off
           /\ \A i \in 1 .. k :
                /\ DOMAIN payload[off + i] = {"role", "content"}
                /\ payload[off + i].role = stored[i].role
                /\ payload[off + i].content = stored[i].content
           /\ supplied => payload[1] = [role |-> "system", content |-> prompt]
           /\ Cardinality({i \in 1 .. Len(payload) :
                              payload[i].role = "system"}) = off
           /\ Last(payload) = UserOf(t)

C19_Witness ==
    \E t, u \in Appended :
        /\ t < u
        /\ turns[t].session_id = turns[u].session_id
        /\ turns[u].request.system_prompt \in SuppliedPrompts
        /\ Len(turns[u].messages) = 3
        /\ Len(heap[turns[u].session_id].messages)
              > OwnIndex(u, heap[turns[u].session_id].messages)

\* the step of turn t is the failure of its backend call
BackendCallFails(t) ==
    \/ \E answer \in ChatOutcomes :
            answer.outcome # "ok" /\ ChatReply(t, answer)
    \/ StreamFail(t)
    \/ StreamEnd(t)

Spec == Init /\ [][Next]_vars
====
